---------------------------- MODULE Spec2Model ----------------------------
(***************************************************************************)
(* Model of src/main/drivers/bus_i2c_stm32f30x.c: the polling I2C master   *)
(* of the STM32F30x target.                                                *)
(*                                                                         *)
(*   - busState, i2cErrorCount, writeBuf are the driver's static data;     *)
(*   - i2cRead / i2cWrite seed busState and enter i2cWaitForCompletion,    *)
(*     whose every iteration is one i2cStateMachine call (one action per   *)
(*     switch case, a fall-through entry case together with its wait       *)
(*     case);                                                              *)
(*   - the peripheral (I2C_GetFlagStatus, I2C_TransferHandling, ...) is    *)
(*     the variable hw: every command arms one status flag, which rises    *)
(*     after a nondeterministic number of polls;                           *)
(*   - i2cUnstick is modelled line operation by line operation under the   *)
(*     specification SpecUnstick.                                          *)
(*                                                                         *)
(* The remaining variables are history variables of the current call.      *)
(*                                                                         *)
(* Spec is of one bus, device 0 (I2CDEV_1); SpecBuses adds the calls made   *)
(* with the other device of i2cHardwareMap. i2cSetOverclock only selects   *)
(* the timing value i2cInit programs and is left out, as is the early      *)
(* return of i2cInit for I2CINVALID.                                       *)
(***************************************************************************)
EXTENDS Integers, Sequences, FiniteSets, TLC

VARIABLES
    busState,       \* busState[0]: i2cBusState_t
    i2cErrorCount,  \* static volatile uint16_t i2cErrorCount
    writeBuf,       \* static uint8_t writeBuf[1] of i2cWrite
    rxBuf,          \* the caller's buffer of the current i2cRead
    hw,             \* the peripheral: the armed status flag and the polls until it rises
    pc,             \* "busy": inside i2cWaitForCompletion; "returned": i2cRead or
                    \* i2cWrite has just returned; "idle": otherwise
    call,           \* history: the arguments of the current (last) call
    ret,            \* history: the value the last call returned ("none" before)
    hwLog,          \* history: the commands issued during the current call
    everIn,         \* history: the states entered during the current call
    polls,          \* history: i2cStateMachine invocations of the current call
    errAtCall,      \* history: i2cErrorCount when the current call was made
    slaveOk,        \* history: so far in this call the slave acknowledged in time
    toState,        \* history: the state whose poll found the countdown at zero
    waitPolls,      \* history: polls since the countdown was last due to be seeded
    evals,          \* history: evaluations of the countdown and flags in the current call
    calls,          \* history: calls made so far
    devArg,         \* history: the I2CDevice argument of the last call ({} when it had none)
    prevEnd,        \* history: how the transaction before the current one ended
    upc, ui, utimeout, sclOut, sdaOut, ulog,  \* i2cUnstick (SpecUnstick)
    sclIn,          \* what the last IORead(scl) of i2cUnstick returned
    sdaIn,          \* the level the slaves leave the data line at
    ureads,         \* history: IORead(scl) calls of the current pulse's wait
    uwaits          \* history: delayMicroseconds(5) intervals of the waits of i2cUnstick

vars == <<busState, i2cErrorCount, writeBuf, rxBuf, hw, pc, call, ret, hwLog,
          everIn, polls, errAtCall, slaveOk, toState, waitPolls, evals, calls,
          devArg, prevEnd, upc, ui, utimeout, sclOut, sdaOut, ulog,
          sclIn, sdaIn, ureads, uwaits>>

mainVars == <<busState, i2cErrorCount, writeBuf, rxBuf, hw, pc, call, ret, hwLog,
              everIn, polls, errAtCall, slaveOk, toState, waitPolls, evals, calls,
              devArg, prevEnd>>

unstickVars == <<upc, ui, utimeout, sclOut, sdaOut, ulog, sclIn, sdaIn, ureads, uwaits>>

---------------------------------------------------------------------------
(* Bounds of the model *)

\* I2C_LONG_TIMEOUT is 10 * 0x1000 polls in the source; the model scales it down.
I2C_LONG_TIMEOUT == 2

\* Longest read requested (the len parameter of i2cRead is a uint8_t).
MaxLen == 2

\* Calls of i2cRead / i2cWrite / i2cTimeoutUserCallback / i2cInit per behaviour.
MaxCalls == 2

(* Program constants *)

\* uint16_t i2cErrorCount
ErrorCountModulus == 65536

\* for (i = 0; i < 9; i++)
UnstickPulses == 9

\* int timeout = 100;
UnstickStretchPolls == 100

\* static i2cDevice_t i2cHardwareMap[] = { { .dev = I2C1, ... }, { .dev = I2C2, ... } };
HardwareMapCount == 2

\* static i2cBusState_t busState[] = { { 0 } }; the initializer sizes the array.
BusStateCount == 1

\* 0 - 1 in a uint32_t is 0xFFFFFFFF, which TLC's 32-bit integers cannot hold:
\* the model writes it in two's complement.
UINT32_WRAPPED == -1

\* Inputs
Addr7s == {104, 232}        \* 0x68, and 0xE8 whose shift overflows a uint8_t
Regs   == {117}             \* 0x75
Bytes  == {0, 113}          \* 0x00, 0x71
ErrorCountStarts == {0, 65534}

---------------------------------------------------------------------------
(* i2cState_t, i2cTransferDirection_t *)

I2C_STATE_STOPPED          == "STOPPED"
I2C_STATE_STOPPING         == "STOPPING"
I2C_STATE_STARTING         == "STARTING"
I2C_STATE_STARTING_WAIT    == "STARTING_WAIT"
I2C_STATE_R_ADDR           == "R_ADDR"
I2C_STATE_R_ADDR_WAIT      == "R_ADDR_WAIT"
I2C_STATE_R_REGISTER       == "R_REGISTER"
I2C_STATE_R_REGISTER_WAIT  == "R_REGISTER_WAIT"
I2C_STATE_R_RESTARTING     == "R_RESTARTING"
I2C_STATE_R_TRANSFER       == "R_TRANSFER"
I2C_STATE_W_ADDR           == "W_ADDR"
I2C_STATE_W_ADDR_WAIT      == "W_ADDR_WAIT"
I2C_STATE_W_REGISTER       == "W_REGISTER"
I2C_STATE_W_REGISTER_WAIT  == "W_REGISTER_WAIT"
I2C_STATE_W_RESTARTING     == "W_RESTARTING"
I2C_STATE_W_TRANSFER       == "W_TRANSFER"
I2C_STATE_NACK             == "NACK"
I2C_STATE_BUS_ERROR        == "BUS_ERROR"

I2C_TXN_READ  == "READ"
I2C_TXN_WRITE == "WRITE"

\* The state a fall-through entry case passes through within its own step.
FallThrough(s) ==
    CASE s = I2C_STATE_STARTING     -> {I2C_STATE_STARTING_WAIT}
      [] s = I2C_STATE_R_ADDR       -> {I2C_STATE_R_ADDR_WAIT}
      [] s = I2C_STATE_R_REGISTER   -> {I2C_STATE_R_REGISTER_WAIT}
      [] s = I2C_STATE_R_RESTARTING -> {I2C_STATE_R_TRANSFER}
      [] s = I2C_STATE_W_ADDR       -> {I2C_STATE_W_ADDR_WAIT}
      [] s = I2C_STATE_W_REGISTER   -> {I2C_STATE_W_REGISTER_WAIT}
      [] s = I2C_STATE_W_RESTARTING -> {I2C_STATE_W_TRANSFER}
      [] OTHER -> {}

---------------------------------------------------------------------------
(* The peripheral *)

\* A command of the peripheral, as logged.
Cmd(op, a, n, endMode, ss) == [op |-> op, a |-> a, n |-> n, endMode |-> endMode, ss |-> ss]

I2C_TransferHandling(addr, n, endMode, ss) == Cmd("TransferHandling", addr, n, endMode, ss)
I2C_SendData(b)    == Cmd("SendData", b, 0, "-", "-")
I2C_ReceiveData(b) == Cmd("ReceiveData", b, 0, "-", "-")
I2C_ClearFlag(f)   == Cmd("ClearFlag", 0, 0, "-", f)
UnstickCall        == Cmd("i2cUnstick", 0, 0, "-", "-")
InitCall           == Cmd("i2cInit", 0, 0, "-", "-")
ErrorCountCall     == Cmd("i2cErrorCount++", 0, 0, "-", "-")

\* I2C_GetFlagStatus(I2Cx, f) != RESET: the armed flag has risen.
I2C_GetFlagStatus(h, f) == h.ev = f /\ h.wait = 0

\* I2C_GetFlagStatus(I2Cx, I2C_ISR_BUSY) == RESET
BusyReset(h) == ~(h.ev = "BUSY" /\ h.wait > 0)

\* One poll later.
HwTick(h) == [h EXCEPT !.wait = IF @ > 0 THEN @ - 1 ELSE 0]

\* A command arms flag f, which rises d polls later.
HwArm(f, d) == [ev |-> f, wait |-> d]

HwQuiet == [ev |-> "NONE", wait |-> 0]

\* The delays a response can take, in polls: at once, on the last poll that
\* still evaluates the flag, and I2C_LONG_TIMEOUT polls or more, which is never
\* in time.
Delays == {0, I2C_LONG_TIMEOUT - 1, I2C_LONG_TIMEOUT}

\* The slave answered in time with an acknowledge (the stop flag, which rises
\* after the last byte, is not an answer of the slave).
InTime(f, d) == f = "STOPF" \/ (f # "NACKF" /\ d < I2C_LONG_TIMEOUT)


---------------------------------------------------------------------------
(* Arithmetic of the driver's fields *)

\* uint32_t x-- : 0 wraps to 0xFFFFFFFF.
Dec32(t) == IF t = 0 THEN UINT32_WRAPPED ELSE t - 1

\* (i2cBusState->timeout--) == 0 : the value tested is the one before the decrement.
Expired(bs) == bs.timeout = 0

\* i2cErrorCount++ on a uint16_t
ErrIncSaturating(c) == IF c + 1 >= ErrorCountModulus THEN c ELSE c + 1
ErrInc(c) == (c + 1) % ErrorCountModulus

\* busState[device].addr = addr << 1 : the int result is stored in a uint8_t.
OnWireAddrUnmasked(addr7) == addr7 * 2
OnWireAddr(addr7) == (addr7 * 2) % 256

\* uint16_t i2cGetErrorCounter(void)
i2cGetErrorCounter == i2cErrorCount

---------------------------------------------------------------------------
(* i2cRead / i2cWrite: the transfer descriptor *)

\* The seven assignments of i2cRead and of i2cWrite; buf is the cursor's
\* offset from the start of the buffer it was pointed at.
NewTxnKeepOutcome(bs, addr7, reg, rw, len) ==
    [bs EXCEPT !.addr = OnWireAddr(addr7), !.reg = reg, !.rw = rw, !.len = len,
               !.buf = 0, !.state = I2C_STATE_STARTING]
NewTxn(bs, addr7, reg, rw, len) ==
    [bs EXCEPT !.addr = OnWireAddr(addr7), !.reg = reg, !.rw = rw, !.len = len,
               !.buf = 0, !.txnOk = FALSE, !.state = I2C_STATE_STARTING]

\* How the last transaction ended.
EndOf ==
    IF everIn = {} THEN "none"
    ELSE IF I2C_STATE_BUS_ERROR \in everIn THEN "buserror"
    ELSE IF I2C_STATE_NACK \in everIn THEN "nack"
    ELSE IF ret THEN "ok"
    ELSE "empty"

\* What a call resets in the history variables; the bus is busy for d more polls.
BeginCall(args, d) ==
    /\ prevEnd' = EndOf
    /\ call' = args
    /\ hw' = HwArm("BUSY", d)
    /\ slaveOk' = (d < I2C_LONG_TIMEOUT)
    /\ hwLog' = << >>
    /\ everIn' = {I2C_STATE_STARTING}
    /\ polls' = 0
    /\ errAtCall' = i2cErrorCount
    /\ toState' = "none"
    /\ waitPolls' = 0
    /\ evals' = 0
    /\ calls' = calls + 1
    /\ devArg' = {0}
    /\ pc' = "busy"
    /\ UNCHANGED <<i2cErrorCount, ret, unstickVars>>

i2cRead ==
    /\ pc # "busy"
    /\ calls < MaxCalls
    /\ \E addr7 \in Addr7s, reg \in Regs, len \in 0 .. MaxLen, d \in Delays :
          /\ busState' = NewTxn(busState, addr7, reg, I2C_TXN_READ, len)
          /\ rxBuf' = [i \in 1 .. len |-> 255]
          /\ BeginCall([rw |-> I2C_TXN_READ, addr7 |-> addr7, reg |-> reg,
                        len |-> len, data |-> 0], d)
    /\ UNCHANGED writeBuf

i2cWrite ==
    /\ pc # "busy"
    /\ calls < MaxCalls
    /\ \E addr7 \in Addr7s, reg \in Regs, data \in Bytes, d \in Delays :
          /\ writeBuf' = <<data>>
          /\ busState' = NewTxn(busState, addr7, reg, I2C_TXN_WRITE, 1)
          /\ BeginCall([rw |-> I2C_TXN_WRITE, addr7 |-> addr7, reg |-> reg,
                        len |-> 1, data |-> data], d)
    /\ UNCHANGED rxBuf

---------------------------------------------------------------------------
(* i2cStateMachine: the waits *)

\* if ((timeout--) == 0) state = I2C_STATE_BUS_ERROR;
TimedOutStays(bs) == [bs EXCEPT !.timeout = Dec32(@)]
TimedOutClearsOutcome(bs) ==
    [bs EXCEPT !.timeout = Dec32(@), !.state = I2C_STATE_BUS_ERROR, !.txnOk = FALSE]
TimedOut(bs) == [bs EXCEPT !.timeout = Dec32(@), !.state = I2C_STATE_BUS_ERROR]

\* (timeout--) == 0 was false: the countdown has been decremented.
Ticked(bs) == [bs EXCEPT !.timeout = Dec32(@)]

\* Entering a wait: state = <wait>; timeout = I2C_LONG_TIMEOUT;
EnterWaitNoSeed(bs, s) == [bs EXCEPT !.state = s]
EnterWait(bs, s) == [bs EXCEPT !.state = s, !.timeout = I2C_LONG_TIMEOUT]

\* The history of a poll of wait state bs.state: one more evaluation of the
\* countdown and the flags.
NotePoll(bs) ==
    /\ toState' = IF Expired(bs) THEN bs.state ELSE toState
    /\ evals' = evals + 1

\* case I2C_STATE_STARTING_WAIT, on the record bs
StartingWaitPoll(bs) ==
    /\ busState' =
          IF Expired(bs) THEN TimedOut(bs)
          ELSE IF BusyReset(hw)
               THEN [Ticked(bs) EXCEPT !.state = IF bs.rw = I2C_TXN_READ
                                                 THEN I2C_STATE_R_ADDR
                                                 ELSE I2C_STATE_W_ADDR]
               ELSE Ticked(bs)
    /\ hw' = HwTick(hw)
    /\ NotePoll(bs)
    /\ UNCHANGED <<hwLog, rxBuf, slaveOk, i2cErrorCount>>

\* case I2C_STATE_R_ADDR_WAIT / I2C_STATE_W_ADDR_WAIT, on the record bs with the
\* peripheral h and the commands log issued so far
AddrWaitPoll(bs, h, log, sRegister) ==
    /\ busState' =
          IF Expired(bs) THEN TimedOut(bs)
          ELSE IF I2C_GetFlagStatus(h, "TXIS")
               THEN [Ticked(bs) EXCEPT !.state = sRegister]
          ELSE IF I2C_GetFlagStatus(h, "NACKF")
               THEN [Ticked(bs) EXCEPT !.state = I2C_STATE_NACK]
          ELSE Ticked(bs)
    /\ hw' = HwTick(h)
    /\ hwLog' = log
    /\ NotePoll(bs)
    /\ UNCHANGED <<rxBuf, i2cErrorCount>>

\* case I2C_STATE_R_REGISTER_WAIT / I2C_STATE_W_REGISTER_WAIT
RegisterWaitPoll(bs, h, log, sRestarting) ==
    /\ NotePoll(bs)
    /\ UNCHANGED <<rxBuf, i2cErrorCount>>
    /\ IF Expired(bs)
       THEN /\ busState' = TimedOut(bs)
            /\ hw' = HwTick(h)
            /\ hwLog' = log
       ELSE IF I2C_GetFlagStatus(h, "TC")
       THEN IF bs.len = 0
            THEN /\ busState' = [Ticked(bs) EXCEPT !.state = I2C_STATE_STOPPING]
                 /\ hwLog' = Append(log, I2C_TransferHandling(bs.addr, 0, "AutoEnd", "Generate_Stop"))
                 /\ \E d \in Delays : hw' = HwArm("STOPF", d)
            ELSE /\ busState' = [Ticked(bs) EXCEPT !.state = sRestarting]
                 /\ hw' = HwTick(h)
                 /\ hwLog' = log
       ELSE IF I2C_GetFlagStatus(h, "NACKF")
       THEN /\ busState' = [Ticked(bs) EXCEPT !.state = I2C_STATE_NACK]
            /\ hw' = HwTick(h)
            /\ hwLog' = log
       ELSE /\ busState' = Ticked(bs)
            /\ hw' = HwTick(h)
            /\ hwLog' = log

\* The body of if (RXNE) / if (TXIS) in the transfer cases: buf++, len--, and
\* after the last byte txnOk = true, state = STOPPING; then timeout = LONG.
XferByteEveryByteOk(bs) ==
    LET n == Dec32(bs.len) IN
    [bs EXCEPT !.buf = @ + 1, !.len = n, !.txnOk = TRUE,
               !.state = IF n = 0 THEN I2C_STATE_STOPPING ELSE @,
               !.timeout = I2C_LONG_TIMEOUT]
XferByteNoDecrement(bs) ==
    [bs EXCEPT !.buf = @ + 1,
               !.txnOk = IF bs.len = 1 THEN TRUE ELSE @,
               !.state = IF bs.len = 1 THEN I2C_STATE_STOPPING ELSE @,
               !.timeout = I2C_LONG_TIMEOUT]
XferByteNoCursor(bs) ==
    LET n == Dec32(bs.len) IN
    [bs EXCEPT !.len = n,
               !.txnOk = IF n = 0 THEN TRUE ELSE @,
               !.state = IF n = 0 THEN I2C_STATE_STOPPING ELSE @,
               !.timeout = I2C_LONG_TIMEOUT]
XferByte(bs) ==
    LET n == Dec32(bs.len) IN
    [bs EXCEPT !.buf = @ + 1, !.len = n,
               !.txnOk = IF n = 0 THEN TRUE ELSE @,
               !.state = IF n = 0 THEN I2C_STATE_STOPPING ELSE @,
               !.timeout = I2C_LONG_TIMEOUT]

\* The flag the peripheral raises after a byte moved: the next byte's, or in
\* auto-end mode the stop's once the programmed count is reached.
AfterByte(bs, f) == IF bs.len = 0 THEN "STOPF" ELSE f

\* case I2C_STATE_R_TRANSFER
R_TransferPoll(bs, h, log, ok) ==
    /\ NotePoll(bs)
    /\ UNCHANGED i2cErrorCount
    /\ IF Expired(bs)
       THEN /\ busState' = TimedOut(bs)
            /\ hw' = HwTick(h)
            /\ UNCHANGED rxBuf
            /\ hwLog' = log
            /\ slaveOk' = ok
       ELSE IF I2C_GetFlagStatus(h, "RXNE")
       THEN \E b \in Bytes, d \in Delays :
              /\ rxBuf' = [rxBuf EXCEPT ![bs.buf + 1] = b]
              /\ hwLog' = Append(log, I2C_ReceiveData(b))
              /\ busState' = XferByte(Ticked(bs))
              /\ hw' = HwArm(AfterByte(XferByte(Ticked(bs)), "RXNE"), d)
              /\ slaveOk' = (ok /\ InTime(AfterByte(XferByte(Ticked(bs)), "RXNE"), d))
       ELSE /\ busState' = Ticked(bs)
            /\ hw' = HwTick(h)
            /\ UNCHANGED rxBuf
            /\ hwLog' = log
            /\ slaveOk' = ok

\* case I2C_STATE_W_TRANSFER
W_TransferPoll(bs, h, log, ok) ==
    /\ NotePoll(bs)
    /\ UNCHANGED <<i2cErrorCount, rxBuf>>
    /\ IF Expired(bs)
       THEN /\ busState' = TimedOut(bs)
            /\ hw' = HwTick(h)
            /\ hwLog' = log
            /\ slaveOk' = ok
       ELSE IF I2C_GetFlagStatus(h, "TXIS")
       THEN \E d \in Delays :
              /\ hwLog' = Append(log, I2C_SendData(writeBuf[bs.buf + 1]))
              /\ busState' = XferByte(Ticked(bs))
              /\ hw' = HwArm(AfterByte(XferByte(Ticked(bs)), "TXIS"), d)
              /\ slaveOk' = (ok /\ InTime(AfterByte(XferByte(Ticked(bs)), "TXIS"), d))
       ELSE /\ busState' = Ticked(bs)
            /\ hw' = HwTick(h)
            /\ hwLog' = log
            /\ slaveOk' = ok

---------------------------------------------------------------------------
(* i2cStateMachine: one action per case of the switch *)

\* do { i2cStateMachine(&busState[device]); } while (state != I2C_STATE_STOPPED);
\* followed by return busState[device].txnOk. The case I2C_STATE_STOPPED of the
\* switch is never executed: every call enters the loop in I2C_STATE_STARTING.
LoopDone(bs) == bs.state = I2C_STATE_STOPPED

\* The caller is inside the loop of i2cWaitForCompletion.
InLoop == pc = "busy"

\* The loop's test after the invocation that produced busState', and the return.
\* waitPolls restarts when a byte moved, is 1 after an entry case's own poll,
\* and counts every further poll; the NACK and BUS_ERROR cases do not poll.
LoopTest ==
    /\ polls' = polls + 1
    /\ everIn' = everIn \cup FallThrough(busState.state) \cup {busState'.state}
    /\ waitPolls' = IF busState'.buf # busState.buf THEN 0
                    ELSE IF FallThrough(busState.state) # {} THEN 1
                    ELSE IF busState.state \in {I2C_STATE_NACK, I2C_STATE_BUS_ERROR}
                         THEN waitPolls
                    ELSE waitPolls + 1
    /\ pc' = IF LoopDone(busState') THEN "returned" ELSE "busy"
    /\ ret' = IF LoopDone(busState') THEN busState'.txnOk ELSE ret
    /\ UNCHANGED <<writeBuf, call, errAtCall, calls, devArg, prevEnd, unstickVars>>

\* case I2C_STATE_STARTING (falls through to I2C_STATE_STARTING_WAIT)
SM_STARTING ==
    /\ InLoop
    /\ busState.state = I2C_STATE_STARTING
    /\ StartingWaitPoll(EnterWait(busState, I2C_STATE_STARTING_WAIT))
    /\ LoopTest

\* case I2C_STATE_STARTING_WAIT
SM_STARTING_WAIT ==
    /\ InLoop
    /\ busState.state = I2C_STATE_STARTING_WAIT
    /\ StartingWaitPoll(busState)
    /\ LoopTest

\* case I2C_STATE_R_ADDR / I2C_STATE_W_ADDR (fall through to the address wait)
AddrCase(sAddr, sWait, sRegister) ==
    /\ InLoop
    /\ busState.state = sAddr
    /\ \E f \in {"TXIS", "NACKF"}, d \in Delays :
          /\ slaveOk' = (slaveOk /\ InTime(f, d))
          /\ AddrWaitPoll(EnterWait(busState, sWait), HwArm(f, d),
                          Append(hwLog, I2C_TransferHandling(busState.addr, 1, "SoftEnd",
                                                            "Generate_Start_Write")),
                          sRegister)
    /\ LoopTest

\* case I2C_STATE_R_ADDR_WAIT / I2C_STATE_W_ADDR_WAIT
AddrWaitCase(sWait, sRegister) ==
    /\ InLoop
    /\ busState.state = sWait
    /\ AddrWaitPoll(busState, hw, hwLog, sRegister)
    /\ UNCHANGED slaveOk
    /\ LoopTest

\* case I2C_STATE_R_REGISTER / I2C_STATE_W_REGISTER (fall through to the register wait)
RegisterCase(sReg, sWait, sRestarting) ==
    /\ InLoop
    /\ busState.state = sReg
    /\ \E f \in {"TC", "NACKF"}, d \in Delays :
          /\ slaveOk' = (slaveOk /\ InTime(f, d))
          /\ RegisterWaitPoll(EnterWait(busState, sWait), HwArm(f, d),
                              Append(hwLog, I2C_SendData(busState.reg)), sRestarting)
    /\ LoopTest

\* case I2C_STATE_R_REGISTER_WAIT / I2C_STATE_W_REGISTER_WAIT
RegisterWaitCase(sWait, sRestarting) ==
    /\ InLoop
    /\ busState.state = sWait
    /\ RegisterWaitPoll(busState, hw, hwLog, sRestarting)
    /\ UNCHANGED slaveOk
    /\ LoopTest

SM_R_ADDR == AddrCase(I2C_STATE_R_ADDR, I2C_STATE_R_ADDR_WAIT, I2C_STATE_R_REGISTER)
SM_R_ADDR_WAIT == AddrWaitCase(I2C_STATE_R_ADDR_WAIT, I2C_STATE_R_REGISTER)
SM_R_REGISTER == RegisterCase(I2C_STATE_R_REGISTER, I2C_STATE_R_REGISTER_WAIT,
                              I2C_STATE_R_RESTARTING)
SM_R_REGISTER_WAIT == RegisterWaitCase(I2C_STATE_R_REGISTER_WAIT, I2C_STATE_R_RESTARTING)

\* I2C_TransferHandling(I2Cx, addr, len, I2C_AutoEnd_Mode, I2C_Generate_Start_Read);
R_RestartCmdOneByte(bs) == I2C_TransferHandling(bs.addr, 1, "AutoEnd", "Generate_Start_Read")
R_RestartCmd(bs) == I2C_TransferHandling(bs.addr, bs.len, "AutoEnd", "Generate_Start_Read")

\* case I2C_STATE_R_RESTARTING (falls through to I2C_STATE_R_TRANSFER)
SM_R_RESTARTING ==
    /\ InLoop
    /\ busState.state = I2C_STATE_R_RESTARTING
    /\ \E d \in Delays :
          R_TransferPoll(EnterWait(busState, I2C_STATE_R_TRANSFER), HwArm("RXNE", d),
                         Append(hwLog, R_RestartCmd(busState)),
                         slaveOk /\ InTime("RXNE", d))
    /\ LoopTest

\* case I2C_STATE_R_TRANSFER
SM_R_TRANSFER ==
    /\ InLoop
    /\ busState.state = I2C_STATE_R_TRANSFER
    /\ R_TransferPoll(busState, hw, hwLog, slaveOk)
    /\ LoopTest

SM_W_ADDR == AddrCase(I2C_STATE_W_ADDR, I2C_STATE_W_ADDR_WAIT, I2C_STATE_W_REGISTER)
SM_W_ADDR_WAIT == AddrWaitCase(I2C_STATE_W_ADDR_WAIT, I2C_STATE_W_REGISTER)
SM_W_REGISTER == RegisterCase(I2C_STATE_W_REGISTER, I2C_STATE_W_REGISTER_WAIT,
                              I2C_STATE_W_RESTARTING)
SM_W_REGISTER_WAIT == RegisterWaitCase(I2C_STATE_W_REGISTER_WAIT, I2C_STATE_W_RESTARTING)

\* case I2C_STATE_W_RESTARTING (falls through to I2C_STATE_W_TRANSFER)
SM_W_RESTARTING ==
    /\ InLoop
    /\ busState.state = I2C_STATE_W_RESTARTING
    /\ \E d \in Delays :
          W_TransferPoll(EnterWait(busState, I2C_STATE_W_TRANSFER), HwArm("TXIS", d),
                         Append(hwLog, I2C_TransferHandling(busState.addr, busState.len,
                                                            "AutoEnd", "No_StartStop")),
                         slaveOk /\ InTime("TXIS", d))
    /\ LoopTest

\* case I2C_STATE_W_TRANSFER
SM_W_TRANSFER ==
    /\ InLoop
    /\ busState.state = I2C_STATE_W_TRANSFER
    /\ W_TransferPoll(busState, hw, hwLog, slaveOk)
    /\ LoopTest

\* case I2C_STATE_NACK: the countdown is neither tested nor seeded.
\* I2C_TransferHandling(I2Cx, addr, 0, I2C_AutoEnd_Mode, I2C_Generate_Stop);
\* I2C_ClearFlag(I2Cx, I2C_FLAG_NACKF);
NackCommandsStopTwice(bs) ==
    <<I2C_TransferHandling(bs.addr, 0, "AutoEnd", "Generate_Stop"),
      I2C_TransferHandling(bs.addr, 0, "AutoEnd", "Generate_Stop"),
      I2C_ClearFlag("NACKF")>>
NackCommands(bs) ==
    <<I2C_TransferHandling(bs.addr, 0, "AutoEnd", "Generate_Stop"), I2C_ClearFlag("NACKF")>>

NackStepBusError(bs) == [bs EXCEPT !.state = I2C_STATE_BUS_ERROR]
NackStepStopped(bs) == [bs EXCEPT !.state = I2C_STATE_STOPPED]
NackStep(bs) == [bs EXCEPT !.state = I2C_STATE_STOPPING]

SM_NACK ==
    /\ InLoop
    /\ busState.state = I2C_STATE_NACK
    /\ busState' = NackStep(busState)
    /\ hwLog' = hwLog \o NackCommands(busState)
    /\ \E d \in Delays : hw' = HwArm("STOPF", d)
    /\ UNCHANGED <<rxBuf, slaveOk, i2cErrorCount, toState, evals>>
    /\ LoopTest

\* case I2C_STATE_STOPPING
SM_STOPPING ==
    /\ InLoop
    /\ busState.state = I2C_STATE_STOPPING
    /\ NotePoll(busState)
    /\ UNCHANGED <<rxBuf, slaveOk, i2cErrorCount>>
    /\ IF Expired(busState)
       THEN /\ busState' = TimedOut(busState)
            /\ hw' = HwTick(hw)
            /\ UNCHANGED hwLog
       ELSE IF I2C_GetFlagStatus(hw, "STOPF")
       THEN /\ busState' = [Ticked(busState) EXCEPT !.state = I2C_STATE_STOPPED]
            /\ hw' = HwQuiet
            /\ hwLog' = Append(hwLog, I2C_ClearFlag("STOPCF"))
       ELSE /\ busState' = Ticked(busState)
            /\ hw' = HwTick(hw)
            /\ UNCHANGED hwLog
    /\ LoopTest

\* i2cInit: busState[device].device = device; .initialized = true; .state = STOPPED
InitBus(bs) == [bs EXCEPT !.device = 0, !.initialized = TRUE, !.state = I2C_STATE_STOPPED]

\* case I2C_STATE_BUS_ERROR: i2cResetInterface (i2cErrorCount++, i2cUnstick, i2cInit),
\* then state = I2C_STATE_STOPPED. i2cUnstick leaves both lines driven high and
\* i2cInit re-initialises the peripheral.
\* static void i2cResetInterface(i2cBusState_t *): i2cErrorCount++;
\* i2cUnstick(...); i2cInit(...);
ResetInterfaceCallsInitFirst == <<ErrorCountCall, InitCall, UnstickCall>>
ResetInterfaceCalls == <<ErrorCountCall, UnstickCall, InitCall>>

SM_BUS_ERROR ==
    /\ InLoop
    /\ busState.state = I2C_STATE_BUS_ERROR
    /\ i2cErrorCount' = ErrInc(i2cErrorCount)
    /\ hwLog' = hwLog \o ResetInterfaceCalls
    /\ busState' = [InitBus(busState) EXCEPT !.state = I2C_STATE_STOPPED]
    /\ hw' = HwQuiet
    /\ UNCHANGED <<rxBuf, slaveOk, toState, evals>>
    /\ LoopTest

i2cStateMachine ==
    \/ SM_BUS_ERROR
    \/ SM_STOPPING
    \/ SM_STARTING
    \/ SM_STARTING_WAIT
    \/ SM_R_ADDR
    \/ SM_R_ADDR_WAIT
    \/ SM_R_REGISTER
    \/ SM_R_REGISTER_WAIT
    \/ SM_R_RESTARTING
    \/ SM_R_TRANSFER
    \/ SM_W_ADDR
    \/ SM_W_ADDR_WAIT
    \/ SM_W_REGISTER
    \/ SM_W_REGISTER_WAIT
    \/ SM_W_RESTARTING
    \/ SM_W_TRANSFER
    \/ SM_NACK

\* i2cWaitForCompletion: the loop's iterations are the invocations of i2cStateMachine.
i2cWaitForCompletion == i2cStateMachine

\* void i2cInit(I2CDevice device), outside a transaction
i2cInit ==
    /\ pc # "busy"
    /\ calls < MaxCalls
    /\ busState' = InitBus(busState)
    /\ hw' = HwQuiet
    /\ calls' = calls + 1
    /\ devArg' = {0}
    /\ pc' = "idle"
    /\ UNCHANGED <<i2cErrorCount, writeBuf, rxBuf, call, ret, hwLog, everIn, polls,
                   errAtCall, slaveOk, toState, waitPolls, evals, prevEnd, unstickVars>>

\* uint32_t i2cTimeoutUserCallback(void)
i2cTimeoutUserCallback ==
    /\ pc # "busy"
    /\ calls < MaxCalls
    /\ i2cErrorCount' = ErrInc(i2cErrorCount)
    /\ calls' = calls + 1
    /\ devArg' = {}
    /\ pc' = "idle"
    /\ UNCHANGED <<busState, hw, writeBuf, rxBuf, call, ret, hwLog, everIn, polls,
                   errAtCall, slaveOk, toState, waitPolls, evals, prevEnd, unstickVars>>

---------------------------------------------------------------------------
(* The driver's specification *)

\* static i2cBusState_t busState[] = { { 0 } };
BusStateZero ==
    [device |-> 0, initialized |-> FALSE, state |-> I2C_STATE_STOPPED, timeout |-> 0,
     addr |-> 0, rw |-> I2C_TXN_READ, reg |-> 0, len |-> 0, buf |-> 0, txnOk |-> FALSE]

UnstickIdle ==
    /\ upc = "idle"
    /\ ui = 0
    /\ utimeout = 0
    /\ sclOut = 1
    /\ sdaOut = 1
    /\ ulog = << >>
    /\ sclIn = 1
    /\ sdaIn = 1
    /\ ureads = 0
    /\ uwaits = 0

InitDriver ==
    /\ busState = BusStateZero
    /\ writeBuf = <<0>>
    /\ rxBuf = << >>
    /\ hw = HwQuiet
    /\ pc = "idle"
    /\ call = [rw |-> I2C_TXN_READ, addr7 |-> 0, reg |-> 0, len |-> 0, data |-> 0]
    /\ ret = FALSE
    /\ hwLog = << >>
    /\ everIn = {}
    /\ polls = 0
    /\ slaveOk = TRUE
    /\ toState = "none"
    /\ waitPolls = 0
    /\ evals = 0
    /\ calls = 0
    /\ devArg = {}
    /\ prevEnd = "none"

Init ==
    /\ InitDriver
    /\ i2cErrorCount \in ErrorCountStarts
    /\ errAtCall = i2cErrorCount
    /\ UnstickIdle

Next ==
    \/ i2cInit
    \/ i2cRead
    \/ i2cWrite
    \/ i2cTimeoutUserCallback
    \/ i2cWaitForCompletion

Spec == Init /\ [][Next]_vars

---------------------------------------------------------------------------
(* i2cUnstick, line operation by line operation *)

\* One IOHi / IOLo, as logged.
IOOp(line, level) == [line |-> line, level |-> level]

\* for (i = 0; i < 9; i++)
PulseLoopRunsShort(i) == i < UnstickPulses - 1
PulseLoopRuns(i) == i < UnstickPulses

\* while (!IORead(scl) && timeout): level is what IORead(scl) returned.
StretchWaitsForever(level, timeout) == level = 0
StretchWaits(level, timeout) == level = 0 /\ timeout # 0

\* IOHi(scl); IOHi(sda); IOConfigGPIO(scl, IOCFG_OUT_OD); IOConfigGPIO(sda, IOCFG_OUT_OD);
\* and the for statement's i = 0.
U_Begin ==
    /\ upc = "idle"
    /\ sclOut' = 1
    /\ sdaOut' = 1
    /\ ulog' = <<IOOp("scl", 1), IOOp("sda", 1)>>
    /\ ui' = 0
    /\ upc' = "for"
    /\ ureads' = 0
    /\ uwaits' = 0
    /\ UNCHANGED <<utimeout, sclIn, sdaIn>>
    /\ UNCHANGED mainVars

\* The test of the for statement, and int timeout = 100;
U_For ==
    /\ upc = "for"
    /\ IF PulseLoopRuns(ui)
       THEN /\ utimeout' = UnstickStretchPolls
            /\ upc' = "while"
       ELSE /\ upc' = "stop"
            /\ UNCHANGED utimeout
    /\ ureads' = 0
    /\ UNCHANGED <<ui, sclOut, sdaOut, ulog, sclIn, sdaIn, uwaits>>
    /\ UNCHANGED mainVars

\* One test of the while statement and, when it holds, its body
\* (delayMicroseconds(5); timeout--). The clock line is open drain and released
\* here, so a slave stretching the clock decides what IORead(scl) returns; the
\* data line is at whatever level the slaves leave it and is not read.
U_While ==
    /\ upc = "while"
    /\ \E level \in {0, 1} :
          /\ sclIn' = level
          /\ IF StretchWaits(level, utimeout)
             THEN /\ utimeout' = utimeout - 1
                  /\ uwaits' = uwaits + 1
                  /\ upc' = "while"
             ELSE /\ upc' = "pulse"
                  /\ UNCHANGED <<utimeout, uwaits>>
    /\ sdaIn' \in {0, 1}
    /\ ureads' = ureads + 1
    /\ UNCHANGED <<ui, sclOut, sdaOut, ulog>>
    /\ UNCHANGED mainVars

\* IOLo(scl); delayMicroseconds(5); IOHi(scl); delayMicroseconds(5); and i++
U_Pulse ==
    /\ upc = "pulse"
    /\ ulog' = ulog \o <<IOOp("scl", 0), IOOp("scl", 1)>>
    /\ sclOut' = 1
    /\ ui' = ui + 1
    /\ upc' = "for"
    /\ UNCHANGED <<utimeout, sdaOut, sclIn, sdaIn, ureads, uwaits>>
    /\ UNCHANGED mainVars

\* IOLo(scl); IOLo(sda); IOHi(scl); IOHi(sda); each but the last followed by
\* delayMicroseconds(5)
StopSequenceNoDataHigh == <<IOOp("scl", 0), IOOp("sda", 0), IOOp("scl", 1)>>
StopSequence == <<IOOp("scl", 0), IOOp("sda", 0), IOOp("scl", 1), IOOp("sda", 1)>>

\* The level a line is left driven at by the operations ops, from level before.
RECURSIVE LastLevel(_, _, _)
LastLevel(ops, line, before) ==
    IF ops = << >> THEN before
    ELSE LastLevel(Tail(ops), line,
                   IF Head(ops).line = line THEN Head(ops).level ELSE before)

U_Stop ==
    /\ upc = "stop"
    /\ ulog' = ulog \o StopSequence
    /\ sclOut' = LastLevel(StopSequence, "scl", sclOut)
    /\ sdaOut' = LastLevel(StopSequence, "sda", sdaOut)
    /\ upc' = "done"
    /\ UNCHANGED <<ui, utimeout, sclIn, sdaIn, ureads, uwaits>>
    /\ UNCHANGED mainVars

i2cUnstick ==
    \/ U_Begin
    \/ U_For
    \/ U_While
    \/ U_Pulse
    \/ U_Stop

\* i2cUnstick called with the lines' output latches at any level.
InitUnstick ==
    /\ InitDriver
    /\ i2cErrorCount = 0
    /\ errAtCall = 0
    /\ upc = "idle"
    /\ ui = 0
    /\ utimeout = 0
    /\ sclOut \in {0, 1}
    /\ sdaOut \in {0, 1}
    /\ ulog = << >>
    /\ sclIn = 1
    /\ sdaIn \in {0, 1}
    /\ ureads = 0
    /\ uwaits = 0

NextUnstick == i2cUnstick

SpecUnstick == InitUnstick /\ [][NextUnstick]_vars

---------------------------------------------------------------------------
(* The calls made with a device whose index busState does not have *)

\* The devices of i2cHardwareMap, by index.
Devices == 0 .. HardwareMapCount - 1

\* busState[d] is an element of the array.
InRange(d) == d < BusStateCount

\* The stores to the fields of busState[d] for d out of range are undefined
\* behaviour. They land past the end of the array: in storage that holds no
\* object of the driver, or on i2cErrorCount, or on writeBuf, where a stored
\* field value v shows; or the build, entitled to take the index for the only
\* valid one, directs them to busState[0], which becomes redirected. wb is
\* what writeBuf holds otherwise.
OutOfRangeStores(vals, redirected, wb) ==
    \/ /\ writeBuf' = wb
       /\ UNCHANGED <<busState, i2cErrorCount>>
    \/ /\ \E v \in vals : i2cErrorCount' = v
       /\ writeBuf' = wb
       /\ UNCHANGED busState
    \/ /\ \E v \in vals : writeBuf' = <<v>>
       /\ UNCHANGED <<busState, i2cErrorCount>>
    \/ /\ busState' = redirected
       /\ writeBuf' = wb
       /\ UNCHANGED i2cErrorCount

\* What a call with device d leaves alone: the peripheral of device 0 and the
\* history of the calls made with device 0.
OtherDeviceCall(d) ==
    /\ pc # "busy"
    /\ calls < MaxCalls
    /\ ~InRange(d)
    /\ calls' = calls + 1
    /\ devArg' = {d}
    /\ pc' = "idle"
    /\ UNCHANGED <<rxBuf, hw, call, ret, hwLog, everIn, polls, errAtCall, slaveOk,
                   toState, waitPolls, evals, prevEnd, unstickVars>>

\* i2cInit(device): busState[device].device = device; .initialized = true;
\* .state = I2C_STATE_STOPPED (enumerator 0)
i2cInitOther ==
    \E d \in Devices :
       /\ OtherDeviceCall(d)
       /\ OutOfRangeStores({d, 1, 0}, [InitBus(busState) EXCEPT !.device = d], writeBuf)

\* i2cRead(device, ...): the seven assignments to busState[device], then the
\* loop of i2cWaitForCompletion on &busState[device]
i2cReadOther ==
    \E d \in Devices, addr7 \in Addr7s, reg \in Regs, len \in 0 .. MaxLen :
       /\ OtherDeviceCall(d)
       /\ OutOfRangeStores({OnWireAddr(addr7), reg, len, 0, 2},
                           NewTxn(busState, addr7, reg, I2C_TXN_READ, len), writeBuf)

\* i2cWrite(device, ...): writeBuf[0] = data; the seven assignments to
\* busState[device], then the loop of i2cWaitForCompletion on &busState[device]
i2cWriteOther ==
    \E d \in Devices, addr7 \in Addr7s, reg \in Regs, data \in Bytes :
       /\ OtherDeviceCall(d)
       /\ OutOfRangeStores({OnWireAddr(addr7), reg, 1, 0, 2},
                           NewTxn(busState, addr7, reg, I2C_TXN_WRITE, 1), <<data>>)

NextBuses ==
    \/ Next
    \/ i2cInitOther
    \/ i2cReadOther
    \/ i2cWriteOther

SpecBuses == Init /\ [][NextBuses]_vars

---------------------------------------------------------------------------
(* Vocabulary of the claims *)

\* i2cRead or i2cWrite has just returned.
Returned == pc = "returned"

\* The slave never NACKed and no poll found a countdown at zero.
CleanRun == I2C_STATE_NACK \notin everIn /\ toState = "none"

\* The bytes moved through the cursor, in the order of their transfer: every
\* ReceiveData of a read, every SendData after the register byte's of a write.
RECURSIVE ValuesOf(_, _)
ValuesOf(log, op) ==
    IF log = << >> THEN << >>
    ELSE (IF Head(log).op = op THEN <<Head(log).a>> ELSE << >>) \o ValuesOf(Tail(log), op)

Moved ==
    IF call.rw = I2C_TXN_READ THEN ValuesOf(hwLog, "ReceiveData")
    ELSE IF ValuesOf(hwLog, "SendData") = << >> THEN << >>
    ELSE Tail(ValuesOf(hwLog, "SendData"))

\* The buffer the cursor walks.
Buffer == IF call.rw = I2C_TXN_READ THEN rxBuf ELSE writeBuf

RECURSIVE CountOf(_, _)
CountOf(log, c) ==
    IF log = << >> THEN 0
    ELSE (IF Head(log) = c THEN 1 ELSE 0) + CountOf(Tail(log), c)

StopCommand == [op |-> "TransferHandling", a |-> busState.addr, n |-> 0,
                endMode |-> "AutoEnd", ss |-> "Generate_Stop"]

TransferStates == {I2C_STATE_R_RESTARTING, I2C_STATE_R_TRANSFER,
                   I2C_STATE_W_RESTARTING, I2C_STATE_W_TRANSFER}

---------------------------------------------------------------------------
(* C1 *)

\* C1: a read or write of any length (0 included) in which the slave never
\* NACKs and no countdown expires ends in STOPPED, returns success, and has
\* moved exactly len bytes, the i-th of them at buffer position i.
C1_CleanRunSucceeds ==
    (Returned /\ CleanRun) =>
        /\ busState.state = I2C_STATE_STOPPED
        /\ ret = TRUE
        /\ Len(Moved) = call.len
        /\ busState.buf = call.len
        /\ Moved = Buffer

---------------------------------------------------------------------------
(* C2 *)

\* What C2 promises of a NACKed transaction whatever follows the NACK.
NackResolved ==
    /\ ret = FALSE
    /\ CountOf(hwLog, StopCommand) = 1
    /\ CountOf(hwLog, [op |-> "ClearFlag", a |-> 0, n |-> 0, endMode |-> "-",
                       ss |-> "NACKF"]) = 1

NoRecovery ==
    /\ I2C_STATE_BUS_ERROR \notin everIn
    /\ i2cErrorCount = errAtCall

\* C2 as stated: every transaction NACKed in the address or the register wait
\* returns failure, issues an auto-ended stop, clears the NACK flag, never
\* enters BUS_ERROR and leaves the error counter as it was at the call.
C2_Original ==
    (Returned /\ I2C_STATE_NACK \in everIn) => (NackResolved /\ NoRecovery)

\* C2 as amended: every NACKed transaction returns failure, issues one
\* auto-ended stop and clears the NACK flag; it stays out of BUS_ERROR and
\* leaves the error counter alone when no poll of the STOPPING state that
\* follows finds the countdown (left over from the wait that saw the NACK) at
\* zero, and otherwise it ends through BUS_ERROR with the counter one higher.
C2_NackWithoutRecovery ==
    (Returned /\ I2C_STATE_NACK \in everIn) =>
        /\ NackResolved
        /\ toState \in {"none", I2C_STATE_STOPPING}
        /\ (toState = "none") => NoRecovery
        /\ (toState = I2C_STATE_STOPPING) =>
              (I2C_STATE_BUS_ERROR \in everIn /\ i2cErrorCount = (errAtCall + 1) % 65536)

\* A transaction NACKed in the register wait whose stop was detected in time.
C2_Witness ==
    /\ Returned
    /\ I2C_STATE_NACK \in everIn
    /\ I2C_STATE_R_REGISTER_WAIT \in everIn
    /\ toState = "none"
    /\ busState.state = I2C_STATE_STOPPED

---------------------------------------------------------------------------
(* C3 *)

\* C3: a transaction in which some poll finds a countdown at zero returns
\* failure, leaves the error counter exactly one higher (mod 2^16), and has
\* run unstick and the peripheral's reinit exactly once each by the time the
\* state is STOPPED.
C3_TimeoutFails ==
    (Returned /\ toState # "none") =>
        /\ ret = FALSE
        /\ i2cErrorCount = (errAtCall + 1) % 65536
        /\ CountOf(hwLog, UnstickCall) = 1
        /\ CountOf(hwLog, InitCall) = 1

---------------------------------------------------------------------------
(* C4 *)

\* The register byte was acknowledged (transfer-complete seen) with nothing left to move.
ZeroLengthComplete ==
    /\ call.len = 0
    /\ I2C_STATE_STOPPING \in everIn
    /\ I2C_STATE_NACK \notin everIn

\* C4: when transfer-complete is seen with remaining length 0, an auto-ended
\* stop is issued and STOPPING follows without RESTARTING or TRANSFER ever
\* being entered, and the call returns success exactly when no NACK and no
\* timeout occurred.
C4_ZeroLength ==
    (Returned /\ ZeroLengthComplete) =>
        /\ CountOf(hwLog, StopCommand) = 1
        /\ everIn \cap TransferStates = {}
        /\ (ret = TRUE) <=> CleanRun

---------------------------------------------------------------------------
(* C5 *)

\* C5: every call terminates: inside the loop another state-machine step is
\* always possible, and the number of steps of a call never exceeds
\* (len + 4) windows of I2C_LONG_TIMEOUT + 1 polls plus the NACK and the
\* BUS_ERROR step, whatever the flags do.
C5_BoundedTermination ==
    /\ InLoop => (busState.state # I2C_STATE_STOPPED /\ ENABLED i2cWaitForCompletion)
    /\ InLoop => polls < (call.len + 4) * (I2C_LONG_TIMEOUT + 1) + 2
    /\ Returned => polls <= (call.len + 4) * (I2C_LONG_TIMEOUT + 1) + 2

\* The longest call: every flag rises on the last poll that still evaluates it
\* and the stop is never detected.
C5_Witness ==
    /\ Returned
    /\ call.len = MaxLen
    /\ toState = I2C_STATE_STOPPING
    /\ polls = (call.len + 4) * I2C_LONG_TIMEOUT + 2

---------------------------------------------------------------------------
(* C6 *)

\* The outcome flag in a state.
C6_OutcomeInv ==
    /\ (InLoop /\ polls = 0) => ~busState.txnOk
    /\ busState.txnOk =>
          /\ busState.len = 0
          /\ busState.buf = call.len
          /\ Len(Moved) = call.len
          /\ call.len >= 1
          /\ I2C_STATE_NACK \notin everIn
          /\ busState.state \in {I2C_STATE_STOPPING, I2C_STATE_BUS_ERROR, I2C_STATE_STOPPED}

\* The step that sets the outcome flag.
C6_OutcomeStep ==
    (~busState.txnOk /\ busState'.txnOk) =>
        /\ busState.state \in TransferStates
        /\ busState.len = 1
        /\ busState'.len = 0
        /\ hwLog' # << >>
        /\ hwLog'[Len(hwLog')].op \in {"ReceiveData", "SendData"}
        /\ busState'.buf = busState.buf + 1
        /\ busState'.state = I2C_STATE_STOPPING

\* C6: the outcome flag is false when a call starts and turns true only in the
\* step that moves the last byte and enters STOPPING; so whenever it is true
\* the remaining count is 0, every requested byte has moved, no NACK was
\* taken, and the state is STOPPING or later (BUS_ERROR, STOPPED).
C6_OutcomeOnlyAfterLastByte == [](C6_OutcomeInv) /\ [][C6_OutcomeStep]_vars

\* The last byte of a two-byte read has just moved.
C6_Witness ==
    /\ busState.txnOk
    /\ busState.state = I2C_STATE_STOPPING
    /\ call.rw = I2C_TXN_READ
    /\ call.len = 2

---------------------------------------------------------------------------
(* C7 *)

\* The counter moved by one, modulo 2^16.
CounterStepsByOne == i2cErrorCount' = (i2cErrorCount + 1) % 65536

\* The step is the BUS_ERROR case of the state machine.
RecoveryStep == InLoop /\ busState.state = I2C_STATE_BUS_ERROR /\ busState' # busState

\* The step is i2cTimeoutUserCallback: outside a call, nothing of the bus touched.
CallbackStep == ~InLoop /\ busState' = busState /\ calls' = calls + 1 /\ pc' = "idle"

\* C7 as stated: the counter only ever changes by +1 mod 2^16, only in the
\* bus-error recovery step, at most once per call, and never in another step.
C7_Original ==
    [][(i2cErrorCount' # i2cErrorCount) =>
          (CounterStepsByOne /\ RecoveryStep /\ i2cErrorCount = errAtCall)]_vars

\* C7 as amended: the counter only ever changes by +1 mod 2^16 (65535 wraps to
\* 0); it changes in every bus-error recovery step, which happens at most once
\* per call, and in i2cTimeoutUserCallback, and in no other step (not in the
\* NACK step, not in any other state-machine step).
C7_CounterSteps ==
    [][/\ (i2cErrorCount' # i2cErrorCount) =>
            /\ CounterStepsByOne
            /\ RecoveryStep \/ CallbackStep
            /\ RecoveryStep => i2cErrorCount = errAtCall
       /\ RecoveryStep => CounterStepsByOne]_vars

\* A call's recovery step has wrapped the counter from 65535 to 0.
C7_Witness ==
    /\ Returned
    /\ errAtCall = 65535
    /\ i2cErrorCount = 0
    /\ I2C_STATE_BUS_ERROR \in everIn

---------------------------------------------------------------------------
(* C8 *)

RECURSIVE Repeat(_, _)
Repeat(ops, n) == IF n = 0 THEN << >> ELSE ops \o Repeat(ops, n - 1)

\* C8: whatever the lines do, unstick performs exactly 9 clock pulses (clock
\* low, clock high), then one stop sequence clock low, data low, clock high,
\* data high, and leaves both lines driven high.
C8_UnstickSequence ==
    (upc = "done") =>
        /\ ulog = <<[line |-> "scl", level |-> 1], [line |-> "sda", level |-> 1]>>
                  \o Repeat(<<[line |-> "scl", level |-> 0], [line |-> "scl", level |-> 1]>>, 9)
                  \o <<[line |-> "scl", level |-> 0], [line |-> "sda", level |-> 0],
                       [line |-> "scl", level |-> 1], [line |-> "sda", level |-> 1]>>
        /\ sclOut = 1
        /\ sdaOut = 1

\* Unstick has finished although the clock line was held low throughout the
\* last pulse's wait.
C8_Witness ==
    /\ upc = "done"
    /\ utimeout = 0
    /\ Len(ulog) = 24

---------------------------------------------------------------------------
(* C9 *)

\* C9: the result of a call is decided by its arguments and by how the slave
\* behaves during it, never by what an earlier transaction left in busState:
\* the call ends in STOPPED and returns true exactly when at least one byte was
\* requested and the slave acknowledged every phase in time, whether the
\* transaction before succeeded, was NACKed or ended in BUS_ERROR.
C9_ResultIndependentOfHistory ==
    Returned =>
        /\ busState.state = I2C_STATE_STOPPED
        /\ ret = (call.len >= 1 /\ slaveOk)

\* A successful write right after a transaction that ended in BUS_ERROR.
C9_Witness ==
    /\ Returned
    /\ prevEnd = "buserror"
    /\ call.rw = I2C_TXN_WRITE
    /\ ret = TRUE

---------------------------------------------------------------------------
(* C10 *)

\* C10: a write to a responsive slave returns true and issues exactly these
\* commands in this order: configure-transfer(on-wire address (addr7 * 2) mod
\* 256, 1 byte, soft end, start-write), send-byte(reg), configure-transfer(same
\* address, 1 byte, auto end, no start/stop), send-byte(byte), clear stop flag;
\* for addr7 = 0x68 the on-wire address is 0xD0.
C10_WriteSequence ==
    (Returned /\ call.rw = I2C_TXN_WRITE /\ CleanRun) =>
        /\ ret = TRUE
        /\ hwLog = << [op |-> "TransferHandling", a |-> (call.addr7 * 2) % 256, n |-> 1,
                       endMode |-> "SoftEnd", ss |-> "Generate_Start_Write"],
                      [op |-> "SendData", a |-> call.reg, n |-> 0, endMode |-> "-", ss |-> "-"],
                      [op |-> "TransferHandling", a |-> (call.addr7 * 2) % 256, n |-> 1,
                       endMode |-> "AutoEnd", ss |-> "No_StartStop"],
                      [op |-> "SendData", a |-> call.data, n |-> 0, endMode |-> "-", ss |-> "-"],
                      [op |-> "ClearFlag", a |-> 0, n |-> 0, endMode |-> "-", ss |-> "STOPCF"] >>
        /\ hwLog[1].a % 2 = 0
        /\ (call.addr7 = 104) => hwLog[1].a = 208

\* write(0x68, 0x75, 0x00) has returned from a responsive slave.
C10_Witness ==
    /\ Returned
    /\ call.rw = I2C_TXN_WRITE
    /\ CleanRun
    /\ call.addr7 = 104
    /\ call.reg = 117
    /\ call.data = 0
    /\ ret = TRUE

---------------------------------------------------------------------------
(* C11 *)

\* The step is one invocation of i2cStateMachine.
SmStep == InLoop /\ busState' # busState

WaitStates == {I2C_STATE_STARTING_WAIT, I2C_STATE_R_ADDR_WAIT, I2C_STATE_W_ADDR_WAIT,
               I2C_STATE_R_REGISTER_WAIT, I2C_STATE_W_REGISTER_WAIT}

XferStates == {I2C_STATE_R_TRANSFER, I2C_STATE_W_TRANSFER}

\* The forward edges of the documented graph out of state a of the record bs.
DocForward(bs, a) ==
    CASE a = I2C_STATE_STARTING -> {I2C_STATE_STARTING_WAIT}
      [] a = I2C_STATE_STARTING_WAIT ->
            {IF bs.rw = I2C_TXN_READ THEN I2C_STATE_R_ADDR ELSE I2C_STATE_W_ADDR}
      [] a = I2C_STATE_R_ADDR -> {I2C_STATE_R_ADDR_WAIT}
      [] a = I2C_STATE_W_ADDR -> {I2C_STATE_W_ADDR_WAIT}
      [] a = I2C_STATE_R_ADDR_WAIT -> {I2C_STATE_R_REGISTER, I2C_STATE_NACK}
      [] a = I2C_STATE_W_ADDR_WAIT -> {I2C_STATE_W_REGISTER, I2C_STATE_NACK}
      [] a = I2C_STATE_R_REGISTER -> {I2C_STATE_R_REGISTER_WAIT}
      [] a = I2C_STATE_W_REGISTER -> {I2C_STATE_W_REGISTER_WAIT}
      [] a = I2C_STATE_R_REGISTER_WAIT ->
            {IF bs.len > 0 THEN I2C_STATE_R_RESTARTING ELSE I2C_STATE_STOPPING,
             I2C_STATE_NACK}
      [] a = I2C_STATE_W_REGISTER_WAIT ->
            {IF bs.len > 0 THEN I2C_STATE_W_RESTARTING ELSE I2C_STATE_STOPPING,
             I2C_STATE_NACK}
      [] a = I2C_STATE_R_RESTARTING -> {I2C_STATE_R_TRANSFER}
      [] a = I2C_STATE_W_RESTARTING -> {I2C_STATE_W_TRANSFER}
      [] a \in XferStates -> {I2C_STATE_STOPPING}
      [] a = I2C_STATE_NACK -> {I2C_STATE_STOPPING}
      [] a = I2C_STATE_STOPPING -> {I2C_STATE_STOPPED}
      [] a = I2C_STATE_BUS_ERROR -> {I2C_STATE_STOPPED}
      [] OTHER -> {}

\* The states a poll may stay in.
Polled == WaitStates \cup XferStates \cup {I2C_STATE_STOPPING}

\* a -> b is an edge of the graph when BUS_ERROR is entered from the states errFrom.
DocEdge(bs, a, b, errFrom) ==
    \/ b \in DocForward(bs, a)
    \/ a \in Polled /\ b = a
    \/ a \in errFrom /\ b = I2C_STATE_BUS_ERROR

\* One invocation follows the graph: an entry case takes the edge to its wait
\* case and the wait case then stays or takes one more edge.
StepFollows(errFrom) ==
    LET a == busState.state
        b == busState'.state
    IN  IF FallThrough(a) # {}
        THEN \A w \in FallThrough(a) :
                /\ DocEdge(busState, a, w, errFrom)
                /\ DocEdge(busState, w, b, errFrom)
        ELSE DocEdge(busState, a, b, errFrom)

\* STOPPED is left only by the seven assignments of i2cRead / i2cWrite.
IdleLeftByCall ==
    (busState.state = I2C_STATE_STOPPED /\ busState'.state # I2C_STATE_STOPPED) =>
        /\ ~InLoop
        /\ pc' = "busy"
        /\ polls' = 0
        /\ busState'.state = I2C_STATE_STARTING

\* C11 as stated: every step follows the documented graph, in which BUS_ERROR
\* is entered only from a wait or a transfer state.
C11_Original ==
    [][/\ SmStep => StepFollows(WaitStates \cup XferStates)
       /\ IdleLeftByCall]_vars

\* C11 as amended: every state-machine step follows the documented graph
\* (STARTING -> STARTING_WAIT -> R_ADDR or W_ADDR by direction -> address
\* wait -> register -> register wait -> restarting when bytes remain or
\* STOPPING when none -> transfer, repeated per byte -> STOPPING -> STOPPED;
\* NACK entered only from an address or register wait and followed by
\* STOPPING; BUS_ERROR always followed by STOPPED), an entry state and its
\* wait state being passed in one step, except that BUS_ERROR is entered from
\* a wait state, a transfer state or STOPPING; STOPPED is left only by a new
\* i2cRead / i2cWrite call.
C11_TransitionGraph ==
    [][/\ SmStep => StepFollows(Polled)
       /\ IdleLeftByCall]_vars

\* The poll of STOPPING found the countdown at zero and entered BUS_ERROR.
C11_Witness ==
    /\ InLoop
    /\ busState.state = I2C_STATE_BUS_ERROR
    /\ toState = I2C_STATE_STOPPING

---------------------------------------------------------------------------
(* C12 *)

\* The step polls a state that counts down and finds the countdown at zero.
ExpiredPoll == SmStep /\ busState.state \in Polled /\ busState.timeout = 0

\* C12: in every state that counts down (the starting, address and register
\* waits, the transfer states, STOPPING) a poll that finds the countdown at
\* zero moves to BUS_ERROR whatever flag has risen, and that step issues no
\* command, moves no byte and leaves the outcome flag as it was.
C12_ExpiredPollFaults ==
    [][ExpiredPoll =>
          /\ busState'.state = I2C_STATE_BUS_ERROR
          /\ hwLog' = hwLog
          /\ rxBuf' = rxBuf
          /\ busState'.buf = busState.buf
          /\ busState'.len = busState.len
          /\ busState'.txnOk = busState.txnOk]_vars

\* The receive-ready flag rose on the very poll of R_TRANSFER that found the
\* countdown at zero: the byte was not received.
C12_Witness ==
    /\ InLoop
    /\ busState.state = I2C_STATE_BUS_ERROR
    /\ toState = I2C_STATE_R_TRANSFER
    /\ hw.ev = "RXNE"
    /\ hw.wait = 0
    /\ Len(Moved) < call.len

---------------------------------------------------------------------------
(* C13 *)

\* The states C13 is about.
SeededStates == WaitStates \cup XferStates

\* Between two invocations: the countdown of a seeded state is the long timeout
\* less the polls made since the seed, never above it and never wrapped.
C13_CountdownInv ==
    (InLoop /\ busState.state \in SeededStates) =>
        /\ busState.timeout = I2C_LONG_TIMEOUT - waitPolls
        /\ busState.timeout >= 0
        /\ busState.timeout <= I2C_LONG_TIMEOUT
        /\ busState.timeout # UINT32_WRAPPED

\* One invocation: the seed on entry, the decrement of a poll that sees no
\* flag, the reseed after a byte, and the poll that faults.
C13_CountdownStep ==
    SmStep =>
        /\ (FallThrough(busState.state) # {} /\ busState'.buf = busState.buf) =>
              busState'.timeout = I2C_LONG_TIMEOUT - 1
        /\ (busState.state \in SeededStates /\ busState'.state = busState.state
            /\ busState'.buf = busState.buf) =>
              /\ busState.timeout >= 1
              /\ busState'.timeout = busState.timeout - 1
        /\ (busState'.buf # busState.buf) =>
              /\ busState.state \in TransferStates
              /\ busState'.timeout = I2C_LONG_TIMEOUT
        /\ (busState.state \in SeededStates /\ busState'.state = I2C_STATE_BUS_ERROR) =>
              /\ waitPolls = I2C_LONG_TIMEOUT
              /\ waitPolls' = I2C_LONG_TIMEOUT + 1
              /\ busState.timeout = 0

\* C13: each of the starting, address and register waits and the transfer
\* states is entered with the countdown seeded to I2C_LONG_TIMEOUT; every poll
\* that sees no flag decreases it by exactly 1; a transferred byte resets it to
\* I2C_LONG_TIMEOUT; so a wait whose flags never rise evaluates them on exactly
\* I2C_LONG_TIMEOUT polls (the entry poll included) and moves to BUS_ERROR on
\* the next one, and none of these states is polled with a countdown above
\* I2C_LONG_TIMEOUT or wrapped below zero.
C13_CountdownSeeded == [](C13_CountdownInv) /\ [][C13_CountdownStep]_vars

\* After the first byte of a two-byte read the slave went silent: the reseeded
\* countdown ran out I2C_LONG_TIMEOUT + 1 polls later.
C13_Witness ==
    /\ InLoop
    /\ busState.state = I2C_STATE_BUS_ERROR
    /\ toState = I2C_STATE_R_TRANSFER
    /\ busState.buf = 1
    /\ busState.len = 1
    /\ waitPolls = I2C_LONG_TIMEOUT + 1

---------------------------------------------------------------------------
(* C14 *)

\* The commands the step issued.
StepCmds == SubSeq(hwLog', Len(hwLog) + 1, Len(hwLog'))

\* The hardware actions of the step, by kind.
StepTransferCmds == Len(ValuesOf(StepCmds, "TransferHandling"))
StepBytes == Len(ValuesOf(StepCmds, "SendData")) + Len(ValuesOf(StepCmds, "ReceiveData"))
StepEvals == evals' - evals

\* C14 as stated: every invocation of the state machine performs at most one
\* hardware action, an action being a transfer command, a byte sent or
\* received, or an evaluation of the ready / NACK / timeout flags.
C14_Original ==
    [][SmStep => StepTransferCmds + StepBytes + StepEvals <= 1]_vars

\* C14 as amended: every invocation of the state machine performs at most one
\* hardware action of each kind (at most one transfer command, at most one
\* byte sent or received, at most one evaluation of the countdown and flags),
\* so at most three actions; an entry state (after STARTING, which issues
\* nothing) issues its command or byte and evaluates the flags of the wait
\* state it falls through to in the same invocation, and a transfer state
\* moves its byte in the invocation that sees the flag.
C14_OneActionOfEachKind ==
    [][SmStep =>
          /\ StepTransferCmds <= 1
          /\ StepBytes <= 1
          /\ StepEvals <= 1
          /\ (FallThrough(busState.state) # {}) => StepEvals = 1
          /\ (FallThrough(busState.state) # {} /\ busState.state # I2C_STATE_STARTING) =>
                StepTransferCmds + StepBytes >= 1]_vars

\* The fourth invocation of a read has issued the repeated start, evaluated the
\* flags and received the first byte.
C14_Witness ==
    /\ InLoop
    /\ call.rw = I2C_TXN_READ
    /\ polls = 4
    /\ evals = 4
    /\ busState.buf = 1
    /\ Len(hwLog) = 4
    /\ hwLog[3].op = "TransferHandling"
    /\ hwLog[4].op = "ReceiveData"

---------------------------------------------------------------------------
(* C15 *)

\* The three commands that open a read.
ReadOpening ==
    << [op |-> "TransferHandling", a |-> (call.addr7 * 2) % 256, n |-> 1,
        endMode |-> "SoftEnd", ss |-> "Generate_Start_Write"],
       [op |-> "SendData", a |-> call.reg, n |-> 0, endMode |-> "-", ss |-> "-"],
       [op |-> "TransferHandling", a |-> (call.addr7 * 2) % 256, n |-> call.len,
        endMode |-> "AutoEnd", ss |-> "Generate_Start_Read"] >>

\* The positions of the log at which a start was generated.
StartsIn(log) ==
    {i \in 1 .. Len(log) : log[i].ss \in {"Generate_Start_Write", "Generate_Start_Read"}}

StartReadsIn(log) == {i \in 1 .. Len(log) : log[i].ss = "Generate_Start_Read"}

\* The commands of a call so far, whatever the slave does.
C15_OrderInv ==
    (pc \in {"busy", "returned"}) =>
        /\ (Returned /\ call.rw = I2C_TXN_READ /\ call.len >= 1 /\ CleanRun) =>
              /\ Len(hwLog) = call.len + 4
              /\ SubSeq(hwLog, 1, 3) = ReadOpening
              /\ \A i \in 1 .. call.len :
                    hwLog[3 + i] = [op |-> "ReceiveData", a |-> rxBuf[i], n |-> 0,
                                    endMode |-> "-", ss |-> "-"]
              /\ hwLog[call.len + 4].op = "ClearFlag"
        /\ Cardinality(StartReadsIn(hwLog)) <= 1
        /\ \A i \in 1 .. Len(hwLog) :
              hwLog[i].op = "ReceiveData" => \E j \in StartReadsIn(hwLog) : j < i
        /\ Len(ValuesOf(hwLog, "ReceiveData")) <= call.len
        /\ (call.rw = I2C_TXN_WRITE) =>
              /\ StartReadsIn(hwLog) = {}
              /\ Cardinality(StartsIn(hwLog)) <= 1

\* The repeated start is issued by the invocation in R_RESTARTING, which is
\* entered only by a poll that saw transfer-complete with bytes remaining.
C15_RestartStep ==
    SmStep =>
        /\ (StartReadsIn(hwLog') # StartReadsIn(hwLog)) =>
              busState.state = I2C_STATE_R_RESTARTING
        /\ (busState'.state = I2C_STATE_R_RESTARTING) =>
              /\ hw'.ev = "TC"
              /\ hw'.wait = 0
              /\ busState.len >= 1
              /\ Len(hwLog') = 2

\* C15: a read of len >= 1 bytes from a responsive slave issues, in this
\* order, configure-transfer(start-write, 1 byte, soft end), send-byte(reg),
\* then only after transfer-complete was seen exactly one
\* configure-transfer(start-read, len bytes, auto end), then exactly len
\* receive-byte actions; no byte is received before the repeated start, and a
\* write never issues a start-read or a second start.
C15_ReadSequence == [](C15_OrderInv) /\ [][C15_RestartStep]_vars

\* A two-byte read from a responsive slave has returned.
C15_Witness ==
    /\ Returned
    /\ call.rw = I2C_TXN_READ
    /\ call.len = 2
    /\ CleanRun
    /\ Len(ValuesOf(hwLog, "ReceiveData")) = 2

---------------------------------------------------------------------------
(* C16 *)

\* The step ran unstick or the peripheral's reinit.
StepRecovers ==
    \E i \in 1 .. Len(StepCmds) : StepCmds[i].op \in {"i2cUnstick", "i2cInit"}

\* C16: of the invocations of the state machine only the one in BUS_ERROR runs
\* unstick and the peripheral's reinit; that invocation increments the error
\* counter, runs unstick, runs the reinit, in this order and once each, and
\* only then is the state STOPPED.
C16_RecoveryOnlyInBusError ==
    [][SmStep =>
          /\ StepRecovers => busState.state = I2C_STATE_BUS_ERROR
          /\ (busState.state = I2C_STATE_BUS_ERROR) =>
                /\ StepCmds = << [op |-> "i2cErrorCount++", a |-> 0, n |-> 0,
                                  endMode |-> "-", ss |-> "-"],
                                 [op |-> "i2cUnstick", a |-> 0, n |-> 0,
                                  endMode |-> "-", ss |-> "-"],
                                 [op |-> "i2cInit", a |-> 0, n |-> 0,
                                  endMode |-> "-", ss |-> "-"] >>
                /\ i2cErrorCount' = (i2cErrorCount + 1) % 65536
                /\ busState'.state = I2C_STATE_STOPPED
                /\ busState'.initialized
                /\ pc' = "returned"
          /\ (busState.state # I2C_STATE_BUS_ERROR) =>
                /\ i2cErrorCount' = i2cErrorCount
                /\ busState'.initialized = busState.initialized]_vars

\* A call whose address wait timed out has returned after the recovery.
C16_Witness ==
    /\ Returned
    /\ toState = I2C_STATE_W_ADDR_WAIT
    /\ busState.state = I2C_STATE_STOPPED
    /\ Len(hwLog) = 4
    /\ hwLog[3].op = "i2cUnstick"
    /\ hwLog[4].op = "i2cInit"

---------------------------------------------------------------------------
(* C17 *)

\* The transfer descriptor of a record.
Descriptor(bs) == <<bs.addr, bs.rw, bs.reg, bs.len, bs.buf>>

\* The step is the seven assignments of i2cRead / i2cWrite.
CallStep == ~InLoop /\ pc' = "busy" /\ polls' = 0

\* C17 as stated: only i2cRead / i2cWrite write the descriptor (address,
\* direction, register, remaining count, cursor); a state-machine step leaves
\* all five fields unchanged and modifies only state, countdown and outcome.
C17_Original ==
    [][/\ (Descriptor(busState') # Descriptor(busState)) => CallStep
       /\ SmStep =>
             /\ Descriptor(busState') = Descriptor(busState)
             /\ busState'.device = busState.device
             /\ busState'.initialized = busState.initialized]_vars

\* C17 as amended: i2cRead / i2cWrite write the whole descriptor; a
\* state-machine step never changes address, direction or register, and
\* changes the remaining count and the cursor only in a transfer-state step
\* that moves a byte (count - 1 and cursor + 1 together); besides these it
\* modifies only state, countdown and outcome, and, in the BUS_ERROR step, the
\* device and initialized fields that the reinit writes.
C17_DescriptorWrites ==
    [][/\ (Descriptor(busState') # Descriptor(busState)) => (CallStep \/ SmStep)
       /\ SmStep =>
             /\ busState'.addr = busState.addr
             /\ busState'.rw = busState.rw
             /\ busState'.reg = busState.reg
             /\ (busState'.len # busState.len \/ busState'.buf # busState.buf) =>
                   /\ busState.state \in TransferStates
                   /\ busState'.len = busState.len - 1
                   /\ busState'.buf = busState.buf + 1
                   /\ StepBytes = 1
             /\ (busState.state \in TransferStates /\ StepBytes = 1) =>
                   /\ busState'.len = busState.len - 1
                   /\ busState'.buf = busState.buf + 1
             /\ (busState.state # I2C_STATE_BUS_ERROR) =>
                   /\ busState'.device = busState.device
                   /\ busState'.initialized = busState.initialized]_vars

\* The first byte of a two-byte read has moved: count 1, cursor 1.
C17_Witness ==
    /\ InLoop
    /\ call.rw = I2C_TXN_READ
    /\ call.len = 2
    /\ busState.state = I2C_STATE_R_TRANSFER
    /\ busState.len = 1
    /\ busState.buf = 1
    /\ busState.addr = (call.addr7 * 2) % 256
    /\ busState.reg = call.reg

---------------------------------------------------------------------------
(* C18 *)

\* The step is a call of i2cInit, i2cRead or i2cWrite with device d.
CallWith(d) == calls' = calls + 1 /\ devArg' = {d}

\* C18: each of the two buses of i2cHardwareMap has a busState record of its
\* own, and a call of i2cInit, i2cRead or i2cWrite with one device leaves the
\* record of the other device (state, countdown, descriptor, outcome) as it
\* was.
C18_BusesIndependent ==
    [][\A d \in Devices :
          CallWith(d) =>
              /\ d < BusStateCount
              /\ (d # 0) => busState' = busState]_vars

---------------------------------------------------------------------------
(* C19 *)

\* The wait before a pulse, step by step: it goes on exactly while the clock
\* reads low and the countdown is not used up, whatever the data line does.
C19_WaitStep ==
    (upc = "while" /\ upc' # upc) =>
        /\ upc' = "pulse"
        /\ sclIn' = 1 \/ utimeout = 0
        /\ uwaits' = uwaits

C19_WaitGoesOn ==
    (upc = "while" /\ upc' = upc /\ ureads' # ureads) =>
        /\ sclIn' = 0
        /\ utimeout > 0
        /\ uwaits' = uwaits + 1

\* Unstick is never stuck before it is done, and its counters are bounded.
C19_Progress ==
    /\ (upc \notin {"idle", "done"}) => ENABLED i2cUnstick
    /\ ui <= 9
    /\ uwaits <= 900
    /\ uwaits <= 100 * ui + (100 - utimeout)
    /\ (upc \in {"while", "pulse"}) => (utimeout >= 0 /\ utimeout <= 100)
    /\ (upc = "done") => (ui = 9 /\ Len(ulog) = 24)

\* C19 as stated: before each of the 9 pulses the clock line is polled at most
\* 100 times; the wait ends as soon as it reads high and after 100 polls the
\* pulse is forced; unstick terminates after at most 900 wait intervals
\* whatever the clock line does, and the data line never affects the sequence.
C19_Original ==
    /\ [](ureads <= 100)
    /\ [](C19_Progress)
    /\ [][C19_WaitStep /\ C19_WaitGoesOn]_vars

\* C19 as amended: before each of the 9 pulses the clock line is read at most
\* 101 times and at most 100 wait intervals pass: the wait ends as soon as the
\* clock line reads high, and after 100 reads that found it low the pulse is
\* forced whatever the 101st read, made before the countdown is tested,
\* returns; so unstick terminates for every behaviour of the clock line within
\* 900 wait intervals, and the data line's level never affects the sequence.
C19_StretchBounded ==
    /\ [](ureads <= 101)
    /\ [](ureads <= (100 - utimeout) + 1)
    /\ [](C19_Progress)
    /\ [][C19_WaitStep /\ C19_WaitGoesOn]_vars

\* The clock line was held low throughout and the data line is low: the ninth
\* pulse is about to be forced after the 101st read and 900 wait intervals.
C19_Witness ==
    /\ upc = "pulse"
    /\ ui = 8
    /\ ureads = 101
    /\ uwaits = 900
    /\ sclIn = 0
    /\ sdaIn = 0

---------------------------------------------------------------------------
(* C20 *)

\* During and after a call of requested length call.len.
C20_BufferInv ==
    (pc \in {"busy", "returned"}) =>
        /\ busState.buf + busState.len = call.len
        /\ Len(Moved) = busState.buf
        /\ busState.len >= 0
        /\ busState.len # UINT32_WRAPPED
        /\ busState.buf >= 0
        /\ busState.buf <= call.len
        /\ (busState.state \in TransferStates) => busState.len >= 1
        /\ Len(Buffer) = call.len
        /\ \A i \in 1 .. busState.buf : Moved[i] = Buffer[i]

\* The step that decrements the remaining count.
C20_DecrementStep ==
    (SmStep /\ busState'.len # busState.len) =>
        /\ busState.len >= 1
        /\ busState'.len = busState.len - 1
        /\ busState'.buf = busState.buf + 1
        /\ busState'.buf <= call.len

\* C20: throughout a read or write of requested length L the bytes moved
\* through the cursor plus the remaining count equal L; the remaining count is
\* decremented only when it is at least 1 and never underflows, the restarting
\* and transfer states being entered only with bytes remaining; the cursor
\* never advances past position L of the buffer, also when the transaction
\* ends by NACK or in BUS_ERROR.
C20_BufferSafety == [](C20_BufferInv) /\ [][C20_DecrementStep]_vars

\* A two-byte read ended in BUS_ERROR after its first byte: cursor 1, count 1.
C20_Witness ==
    /\ Returned
    /\ call.rw = I2C_TXN_READ
    /\ call.len = 2
    /\ I2C_STATE_BUS_ERROR \in everIn
    /\ busState.buf = 1
    /\ busState.len = 1
    /\ Len(Moved) = 1

=============================================================================
